---------------------------- MODULE Spec2Model ----------------------------
(***************************************************************************)
(* A model of the tichu-rs game core: the card model, the dealer, the      *)
(* seating / turn iterator and the round engine.                           *)
(*                                                                         *)
(* Rust Option<T> values are modelled as sequences of length at most one:  *)
(* None is << >> and Some(x) is << x >>.                                   *)
(***************************************************************************)
EXTENDS Integers, Sequences, FiniteSets, TLC

VARIABLES
    (* generate_hands, executed draw by draw *)
    deck,          \* Vec<Cards>: the cards not yet drawn
    hands,         \* Vec<Hand>: the hands completed so far
    hand,          \* Hand: the hand under construction
    rng,           \* state of the random number generator
    gpc,           \* position in generate_hands: "draw" | "done"
    (* Game *)
    players,       \* Game.players: HashMap<Sid, Player>, sid -> [team, hand, trick_points]
    phase,         \* Game.phase: Option<Phase>
    starting,      \* start_game has released the store and skip_exchange has not run yet
    max_time,      \* max_time of the exchange loop's thread, None while no loop runs
    team_events,   \* number of join-team / player-swap-team events handled so far
    panicked,      \* TRUE once an operation has panicked (the store mutex is poisoned)
    (* event handlers *)
    guard,         \* the connection whose handler holds the MutexGuard of the store
    pending,       \* connection -> the locals of its handler between two steps
    emitted,       \* the outbound events emitted so far
    (* Round *)
    has_round,     \* Game.round / Game.player_turn_iterator is Some
    prev_next_player, \* Round.prev_next_player: sid -> sid (a partial map)
    current_player,   \* Round.current_player
    last_played_player, \* Round.last_played_player
    previous_action,  \* Round.previous_action: Option<Action>
    current_trick,    \* Round.current_trick: Vec<Vec<Cards>>
    current_trick_type, \* Round.current_trick_type: Option<TrickType>
    first_to_finish,  \* Round.first_to_finish: Option<Sid>
    (* observation of the last call *)
    last_call,     \* what the last operation was and what it returned
    passes         \* number of accepted Pass turns since the last accepted Play

dealVars == << deck, hands, hand, rng, gpc >>
handlerVars == << guard, pending, emitted >>
gameVars == << players, phase, starting, max_time, team_events, panicked, handlerVars >>
roundVars == << has_round, prev_next_player, current_player, last_played_player,
                previous_action, current_trick, current_trick_type, first_to_finish >>
obsVars == << last_call, passes >>
vars == << dealVars, gameVars, roundVars, obsVars >>

None == << >>
Some(x) == << x >>

(***************************************************************************)
(* Bounds of the model.                                                    *)
(***************************************************************************)
\* seeds of the random number generator that are explored: 0..MaxSeed
MaxSeed == 7

(***************************************************************************)
(* Card model (types.rs / core.rs, enum Cards).                            *)
(***************************************************************************)
Colors == << "Black", "Blue", "Red", "Green" >>

Ranks == << "Two", "Three", "Four", "Five", "Six", "Seven", "Eight", "Nine",
            "Ten", "Jack", "Queen", "King", "Ace" >>

\* a numeric card Rank(Color)
Num(rank, color) == [kind |-> rank, color |-> Some(color), value |-> None]

Dog == [kind |-> "Dog", color |-> None, value |-> None]

Dragon == [kind |-> "Dragon", color |-> None, value |-> None]

\* Mahjong(Box<Mahjong { wish: None }>)
MahjongCard == [kind |-> "Mahjong", color |-> None, value |-> None]

\* Phoenix(Box<Phoenix { value }>), value an Option<u8>
Phoenix(value) == [kind |-> "Phoenix", color |-> None, value |-> value]

CardEqStructural(a, b) == a = b

\* impl PartialEq for Phoenix: two Phoenixes are equal whatever their values;
\* every other card compares structurally (derive(PartialEq)).
CardEq(a, b) ==
    IF a.kind = "Phoenix" /\ b.kind = "Phoenix" THEN TRUE ELSE a = b

\* Vec::contains under the PartialEq above
Contains(cards, c) == \E i \in 1..Len(cards) : CardEq(cards[i], c)

\* Cards::get_points
GetPointsPhoenixPositive(c) ==
    CASE c.kind = "Five" -> 5
      [] c.kind = "Ten" -> 10
      [] c.kind = "King" -> 10
      [] c.kind = "Dragon" -> 25
      [] c.kind = "Phoenix" -> 25
      [] OTHER -> 0

GetPoints(c) ==
    CASE c.kind = "Five" -> 5
      [] c.kind = "Ten" -> 10
      [] c.kind = "King" -> 10
      [] c.kind = "Dragon" -> 25
      [] c.kind = "Phoenix" -> 0 - 25
      [] OTHER -> 0

(***************************************************************************)
(* Deck and dealer (core.rs, generate_hands).                              *)
(***************************************************************************)
RECURSIVE Flatten(_)
Flatten(ss) == IF ss = << >> THEN << >> ELSE Head(ss) \o Flatten(Tail(ss))

\* the 13 cards pushed for one color, in the order of the loop body
ColorCards(color) == [i \in 1..Len(Ranks) |-> Num(Ranks[i], color)]

\* the deck as generate_hands builds it, before any draw
FullDeck ==
    Flatten([i \in 1..Len(Colors) |-> ColorCards(Colors[i])])
        \o << Phoenix(None), MahjongCard, Dragon, Dog >>

\* number of hands and cards per hand (the bounds of the two for loops)
NumHands == 4
HandSize == 14

\* Vec::remove(i) with a 0-based index: the rest of the vector, in order
Remove(v, i) == SubSeq(v, 1, i) \o SubSeq(v, i + 2, Len(v))

\* the generator's next state; a deterministic stream per seed
RngNext(r) == (r * 13 + 7) % 64

\* rng.gen_range(0..len)
GenRange(r, len) == r % len

\* one iteration of the inner loop:
\* hand.cards.push(deck.remove(rng.gen_range(0..deck.len()))), and
\* hands.push(hand) after the 14th card of a hand
DrawPush(d, h, i) == Append(h, d[i + 1])

DrawRemoveNothing(d, i) == d

DrawRemove(d, i) == Remove(d, i)

DrawStep(st) ==
    LET i == GenRange(st.rng, Len(st.deck))
        h == DrawPush(st.deck, st.hand, i)
        full == Len(h) >= HandSize
    IN [deck |-> DrawRemove(st.deck, i),
        hand |-> IF full THEN << >> ELSE h,
        hands |-> IF full THEN Append(st.hands, h) ELSE st.hands,
        rng |-> RngNext(st.rng)]

DealStart(seed) == [deck |-> FullDeck, hands |-> << >>, hand |-> << >>, rng |-> seed]

RECURSIVE RunDraws(_)
RunDraws(st) == IF Len(st.hands) >= NumHands THEN st.hands ELSE RunDraws(DrawStep(st))

\* generate_hands as a function of the generator's seed
GenerateHands(seed) == RunDraws(DealStart(seed))

\* the state of the lobby, game and round while only generate_hands runs
Idle ==
    /\ players = << >>
    /\ phase = None
    /\ starting = FALSE
    /\ max_time = None
    /\ guard = None
    /\ pending = << >>
    /\ emitted = {}
    /\ team_events = 0
    /\ panicked = FALSE
    /\ has_round = FALSE
    /\ prev_next_player = << >>
    /\ current_player = None
    /\ last_played_player = None
    /\ previous_action = None
    /\ current_trick = << >>
    /\ current_trick_type = None
    /\ first_to_finish = None
    /\ last_call = [op |-> "none"]
    /\ passes = 0

\* generate_hands not running
NoDeal ==
    /\ deck = << >>
    /\ hands = << >>
    /\ hand = << >>
    /\ rng = 0
    /\ gpc = "idle"

DealSpecInit ==
    /\ \E seed \in 0..MaxSeed :
          LET st == DealStart(seed)
          IN /\ deck = st.deck
             /\ hands = st.hands
             /\ hand = st.hand
             /\ rng = st.rng
    /\ gpc = "draw"
    /\ Idle

Draw ==
    /\ gpc = "draw"
    /\ LET st == DrawStep([deck |-> deck, hands |-> hands, hand |-> hand, rng |-> rng])
       IN /\ deck' = st.deck
          /\ hand' = st.hand
          /\ hands' = st.hands
          /\ rng' = st.rng
          /\ gpc' = IF Len(st.hands) >= NumHands THEN "done" ELSE "draw"
    /\ UNCHANGED << gameVars, roundVars, obsVars >>

DealNext == Draw

\* generate_hands on its own, for every explored seed
SpecDeal == DealSpecInit /\ [][DealNext]_vars

Range(s) == {s[i] : i \in 1..Len(s)}

\* C9: when generate_hands returns, it returns exactly four hands of exactly
\* 14 cards each, without a repeated card inside a hand, pairwise disjoint,
\* whose union is the full 56-card deck; exactly one hand holds the Mahjong.
C9_DealPartition ==
    gpc = "done" =>
        /\ Len(hands) = 4
        /\ \A i \in 1..Len(hands) :
              /\ Len(hands[i]) = 14
              /\ Cardinality(Range(hands[i])) = 14
        /\ \A i, j \in 1..Len(hands) :
              i # j => Range(hands[i]) \cap Range(hands[j]) = {}
        /\ UNION {Range(hands[i]) : i \in 1..Len(hands)} = Range(FullDeck)
        /\ Cardinality(Range(FullDeck)) = 56
        /\ Cardinality({i \in 1..Len(hands) : MahjongCard \in Range(hands[i])}) = 1

C9_Witness ==
    /\ gpc = "done"
    /\ Len(hands) = 4
    /\ deck = << >>

(***************************************************************************)
(* Lobby, teams, dealing and game start.                                   *)
(***************************************************************************)
\* the socket ids that may take part, in a fixed reference order
SidSeq == << "p1", "p2", "p3", "p4", "p5" >>

Sids == Range(SidSeq)

\* team-change events (join-team, player-swap-team) explored per behaviour
MaxTeamEvents == 1

\* seeds explored by deal_cards: 0..MaxDealSeed
MaxDealSeed == 0

\* Player { socket_id, hand: None, team: None, trick_points: 0, .. } (Default)
NewPlayer == [team |-> None, hand |-> None, trick_points |-> 0]

RECURSIVE SelectIn(_, _)
SelectIn(seq, S) ==
    IF seq = << >> THEN << >>
    ELSE IF Head(seq) \in S THEN << Head(seq) >> \o SelectIn(Tail(seq), S)
    ELSE SelectIn(Tail(seq), S)

\* the orders in which the elements of a set can be visited
RECURSIVE OrdersOf(_)
OrdersOf(S) ==
    IF S = {} THEN {<< >>}
    ELSE UNION {{<< x >> \o rest : rest \in OrdersOf(S \ {x})} : x \in S}

\* The iteration orders of the players HashMap: the order of a HashMap is
\* unspecified, so every operation that iterates the map takes any order of
\* its keys.
IterOrders(pl) == OrdersOf(DOMAIN pl)

\* connect_lobby: the new player is inserted into the players map
ConnectLobby(s) ==
    /\ ~panicked
    /\ s \notin DOMAIN players
    /\ players' = players @@ (s :> NewPlayer)
    /\ last_call' = [op |-> "connect_lobby"]
    /\ UNCHANGED << phase, starting, max_time, handlerVars, team_events, panicked, dealVars, roundVars, passes >>

TeamCountButOne(pl, team) == Cardinality({s \in DOMAIN pl : pl[s].team = Some(team)}) - 1

TeamCount(pl, team) == Cardinality({s \in DOMAIN pl : pl[s].team = Some(team)})

\* Game::join_team: the player's team is set
SetTeam(pl, s, team) == [pl EXCEPT ![s].team = Some(team)]

\* join_team (handlers.rs): refused when the player is already on the team or
\* when team One / Two already has two members; Spectator is always allowed
JoinTeam(s, team) ==
    /\ ~panicked
    /\ s \in DOMAIN players
    /\ LET answer == IF players[s].team = Some(team) THEN "Player already in team"
                     ELSE IF team # "Spectator" /\ TeamCount(players, team) >= 2
                     THEN "Team is full"
                     ELSE "Joined team"
       IN /\ last_call' = [op |-> "join_team", player |-> s, team |-> team,
                           ok |-> answer = "Joined team", answer |-> answer]
          /\ players' = IF answer = "Joined team" THEN SetTeam(players, s, team) ELSE players
    /\ UNCHANGED << phase, starting, max_time, handlerVars, panicked, dealVars, roundVars, passes >>

\* player-swap-team (events.rs): the two players exchange their teams
SwapTeam(s1, s2) ==
    /\ ~panicked
    /\ team_events < MaxTeamEvents
    /\ s1 \in DOMAIN players
    /\ s2 \in DOMAIN players
    /\ team_events' = team_events + 1
    /\ players' = [players EXCEPT ![s1].team = players[s2].team,
                                  ![s2].team = players[s1].team]
    /\ last_call' = [op |-> "player_swap_team"]
    /\ UNCHANGED << phase, starting, max_time, handlerVars, panicked, dealVars, roundVars, passes >>

\* the hands generate_hands returns, per seed
DealtHands == [seed \in 0..MaxDealSeed |-> GenerateHands(seed)]

Min(a, b) == IF a <= b THEN a ELSE b

\* deal_cards: every hand is cleared, then the players map, in its iteration
\* order, is zipped with the four generated hands
ZipHandsInOrder(order, hs) ==
    [s \in Range(order) |->
        LET i == CHOOSE k \in 1..Len(order) : order[k] = s
        IN IF i <= Len(hs) THEN Some(hs[i]) ELSE None]

DealCardsTo(pl, order, hs) ==
    LET given == ZipHandsInOrder(order, hs)
    IN [s \in DOMAIN pl |-> [pl[s] EXCEPT !.hand = given[s]]]

DealCards ==
    /\ ~panicked
    /\ \E seed \in 0..MaxDealSeed : \E order \in IterOrders(players) :
          /\ players' = DealCardsTo(players, order, DealtHands[seed])
          /\ last_call' = [op |-> "deal_cards", hands |-> DealtHands[seed]]
    /\ UNCHANGED << phase, starting, max_time, handlerVars, team_events, panicked, dealVars, roundVars, passes >>

\* impl From<Vec<Sid>> for TurnIterator / generate_player_turn_sequence:
\* previous starts as the last player; each player is inserted as the
\* successor of the previous one (a later insert under a key replaces it)
RECURSIVE InsertSuccessors(_, _, _)
InsertSuccessors(map, previous, rest) ==
    IF rest = << >> THEN map
    ELSE InsertSuccessors(
            [k \in (DOMAIN map) \cup {previous} |->
                IF k = previous THEN Head(rest) ELSE map[k]],
            Head(rest), Tail(rest))

GeneratePlayerTurnSequence(turns) == InsertSuccessors(<< >>, turns[Len(turns)], turns)

\* init_playing_phase: team_1.zip(team_2).flat_map(|(p1, p2)| vec![p1, p2])
TeamSeq(pl, order, team) ==
    SelectIn(order, {s \in DOMAIN pl : pl[s].team = Some(team)})

Turns(pl, order) ==
    LET t1 == TeamSeq(pl, order, "One")
        t2 == TeamSeq(pl, order, "Two")
    IN Flatten([i \in 1..Min(Len(t1), Len(t2)) |-> << t1[i], t2[i] >>])

HasMahjong(p) ==
    /\ p.hand # None
    /\ \E i \in 1..Len(p.hand[1]) : p.hand[1][i].kind = "Mahjong"

\* the first player, in iteration order, whose hand holds the Mahjong
PlayerWithMahjongIgnored(pl, order) == SelectIn(order, {order[1]})

PlayerWithMahjong(pl, order) ==
    SelectIn(order, {s \in DOMAIN pl : HasMahjong(pl[s])})

\* The Round that Game::start creates around the turn sequence: the holder of
\* the Mahjong opens and is the initial last aggressor; the trick is empty.
NewRound(seq, holder) ==
    /\ has_round' = TRUE
    /\ prev_next_player' = seq
    /\ current_player' = Some(holder)
    /\ last_played_player' = Some(holder)
    /\ previous_action' = None
    /\ current_trick' = << >>
    /\ current_trick_type' = None
    /\ first_to_finish' = None

\* init_playing_phase / Game::start. It panics when no player is on both
\* teams (players.last().unwrap() on an empty Vec) and when no player holds
\* the Mahjong (expect); the second panic comes after the turn iterator was
\* stored with the first player as the current one.
StartEffect(order) ==
    LET turns == Turns(players, order)
        holders == PlayerWithMahjong(players, order)
    IN IF turns = << >>
       THEN /\ panicked' = TRUE
            /\ last_call' = [op |-> "start", ok |-> FALSE]
            /\ UNCHANGED << roundVars >>
       ELSE IF holders = << >>
       THEN /\ panicked' = TRUE
            /\ last_call' = [op |-> "start", ok |-> FALSE]
            /\ has_round' = TRUE
            /\ prev_next_player' = GeneratePlayerTurnSequence(turns)
            /\ current_player' = Some(turns[1])
            /\ UNCHANGED << last_played_player, previous_action, current_trick,
                            current_trick_type, first_to_finish >>
       ELSE /\ UNCHANGED panicked
            /\ last_call' = [op |-> "start", ok |-> TRUE]
            /\ NewRound(GeneratePlayerTurnSequence(turns), holders[1])

InitPlayingPhase ==
    /\ ~panicked
    /\ \E order \in IterOrders(players) : StartEffect(order)
    /\ UNCHANGED << players, phase, starting, max_time, handlerVars, team_events, dealVars, passes >>

\* validate_teams (handlers.rs)
ValidateTeams(pl) ==
    /\ Cardinality(DOMAIN pl) = 4
    /\ TeamCount(pl, "One") = 2
    /\ TeamCount(pl, "Two") = 2

\* start_game (handlers.rs), up to drop(guard): the teams are validated, the
\* cards are dealt and the phase becomes Exchanging when it was unset
StartGame ==
    /\ ~panicked
    /\ IF ~ValidateTeams(players)
       THEN /\ last_call' = [op |-> "start_game", ok |-> FALSE]
            /\ UNCHANGED << players, phase, starting >>
       ELSE /\ \E seed \in 0..MaxDealSeed : \E order \in IterOrders(players) :
                  players' = DealCardsTo(players, order, DealtHands[seed])
            /\ phase' = IF phase = None THEN Some("Exchanging") ELSE phase
            /\ starting' = TRUE
            /\ last_call' = [op |-> "start_game", ok |-> TRUE]
    /\ UNCHANGED << max_time, handlerVars, team_events, panicked, dealVars, roundVars, passes >>

\* skip_exchange (handlers.rs): the game is started and the phase becomes Playing
SkipExchange ==
    /\ ~panicked
    /\ starting
    /\ starting' = FALSE
    /\ \E order \in IterOrders(players) : StartEffect(order)
    /\ phase' = IF panicked' THEN phase ELSE Some("Playing")
    /\ UNCHANGED << players, max_time, handlerVars, team_events, dealVars, passes >>

\* the state of a game without a round, before any call
NoRound ==
    /\ phase = None
    /\ starting = FALSE
    /\ max_time = None
    /\ guard = None
    /\ pending = << >>
    /\ emitted = {}
    /\ team_events = 0
    /\ panicked = FALSE
    /\ has_round = FALSE
    /\ prev_next_player = << >>
    /\ current_player = None
    /\ last_played_player = None
    /\ previous_action = None
    /\ current_trick = << >>
    /\ current_trick_type = None
    /\ first_to_finish = None
    /\ last_call = [op |-> "none"]
    /\ passes = 0

\* four players, the members of `one` on team One and the others on team Two
FourPlayers(one) ==
    [s \in {"p1", "p2", "p3", "p4"} |->
        [NewPlayer EXCEPT !.team = IF s \in one THEN Some("One") ELSE Some("Two")]]

\* a lobby of four players, two on each team (the games the tests build)
LobbyInit ==
    /\ players = FourPlayers({"p1", "p2"})
    /\ NoRound
    /\ NoDeal

LobbyNext ==
    \/ \E s \in Sids : ConnectLobby(s)
    \/ \E s \in Sids : \E team \in {"One", "Two", "Spectator"} :
          /\ team_events < MaxTeamEvents
          /\ team_events' = team_events + 1
          /\ JoinTeam(s, team)
    \/ \E s1, s2 \in Sids : SwapTeam(s1, s2)
    \/ StartGame
    \/ SkipExchange

\* the event handlers of the lobby and of the start of a game
SpecStart == LobbyInit /\ [][LobbyNext]_vars

\* games of four players, two on each team; which two share a team is
\* immaterial under every iteration order of the players map
CoreInit ==
    /\ \E one \in {{"p1", "p2"}, {"p1", "p3"}} : players = FourPlayers(one)
    /\ NoRound
    /\ NoDeal

CoreNext ==
    \/ \E s \in Sids : ConnectLobby(s)
    \/ DealCards
    \/ InitPlayingPhase

\* the core operations deal_cards and init_playing_phase, called on a game
\* that further players may have connected to
SpecCore == CoreInit /\ [][CoreNext]_vars

(***************************************************************************)
(* Combination classifier (types.rs, impl TryFrom<&[Cards]> for TrickType).*)
(***************************************************************************)
NumericRank(kind) == CHOOSE i \in 1..Len(Ranks) : Ranks[i] = kind

IsNumeric(c) == \E i \in 1..Len(Ranks) : Ranks[i] = c.kind

GetCardNumberMahjongTwo(c) ==
    IF c.kind = "Mahjong" THEN Some(2)
    ELSE IF IsNumeric(c) THEN Some(NumericRank(c.kind) + 1)
    ELSE IF c.kind = "Phoenix" THEN c.value
    ELSE None

\* Cards::get_card_number: an Option<u8>
GetCardNumber(c) ==
    IF c.kind = "Mahjong" THEN Some(1)
    ELSE IF IsNumeric(c) THEN Some(NumericRank(c.kind) + 1)
    ELSE IF c.kind = "Phoenix" THEN c.value
    ELSE None

\* Cards::get_color
GetColor(c) == IF IsNumeric(c) THEN c.color ELSE None

\* cards.iter().filter_map(|c| c.get_card_number()).collect()
RECURSIVE CardNumbers(_)
CardNumbers(cards) ==
    IF cards = << >> THEN << >>
    ELSE GetCardNumber(Head(cards)) \o CardNumbers(Tail(cards))

RECURSIVE Insert(_, _)
Insert(x, sorted) ==
    IF sorted = << >> THEN << x >>
    ELSE IF x <= Head(sorted) THEN << x >> \o sorted
    ELSE << Head(sorted) >> \o Insert(x, Tail(sorted))

SortKeepsOrder(v) == v

\* Vec::sort
RECURSIVE Sort(_)
Sort(v) == IF v = << >> THEN << >> ELSE Insert(Head(v), Sort(Tail(v)))

AllEqualWithoutPhoenix(cards) ==
    /\ Cardinality(Range(CardNumbers(cards))) = 1
    /\ \A i \in 1..Len(cards) : cards[i].kind # "Phoenix"

\* sort then dedup, then len() == 1
AllEqual(cards) == Cardinality(Range(CardNumbers(cards))) = 1

\* card_digits.windows(2).all(|w| w[0] + 1 == w[1])
IsSequence(cards) ==
    LET d == Sort(CardNumbers(cards))
    IN \A i \in 1..(Len(d) - 1) : d[i] + 1 = d[i + 1]

\* card_digits.windows(4).all(|w| w[0] == w[1] && w[2] == w[3] && w[0] + 1 == w[2])
IsSequenceOfPairs(cards) ==
    LET d == Sort(CardNumbers(cards))
    IN \A i \in 1..(Len(d) - 3) :
          d[i] = d[i + 1] /\ d[i + 2] = d[i + 3] /\ d[i] + 1 = d[i + 2]

Occurrences(v, x) == Cardinality({i \in 1..Len(v) : v[i] = x})

\* two distinct numbers, one of them three times and the other twice
IsFullHouse(cards) ==
    LET values == CardNumbers(cards)
        unique == Range(values)
    IN /\ Cardinality(unique) = 2
       /\ {Occurrences(values, x) : x \in unique} = {2, 3}

SameVariantButPhoenix(cards) ==
    \A i, j \in 1..Len(cards) :
       cards[i].kind = cards[j].kind \/ "Phoenix" \in {cards[i].kind, cards[j].kind}

\* std::mem::discriminant equality with cards[0]: the same variant of Cards
SameVariant(cards) == \A i \in 1..Len(cards) : cards[i].kind = cards[1].kind

RECURSIVE CardColors(_)
CardColors(cards) ==
    IF cards = << >> THEN << >> ELSE GetColor(Head(cards)) \o CardColors(Tail(cards))

StraightKindNeverFlush(cards) == "Straight"

StraightKind(cards) ==
    LET colors == CardColors(cards)
    IN IF Len(colors) # Len(cards) THEN "Straight"
       ELSE IF \A i \in 1..Len(colors) : colors[i] = colors[1] THEN "StraightFlush"
       ELSE "Straight"

\* TrickType::try_from(cards): Some(type), or None for Err("invalid trick")
TrickTypeOf(cards) ==
    LET n == Len(cards)
    IN IF n = 1 THEN Some("Single")
       ELSE IF n = 2 /\ AllEqual(cards) THEN Some("Pair")
       ELSE IF n = 3 /\ AllEqual(cards) THEN Some("Triple")
       ELSE IF n = 4 THEN (IF SameVariant(cards) THEN Some("FourOfAKind") ELSE None)
       ELSE IF n = 5 /\ IsFullHouse(cards) THEN Some("FullHouse")
       ELSE IF n >= 4 /\ n <= 14 /\ IsSequenceOfPairs(cards) THEN Some("SequenceOfPairs")
       ELSE IF n >= 5 /\ n <= 14 /\ IsSequence(cards) THEN Some(StraightKind(cards))
       ELSE None

(***************************************************************************)
(* Combination comparator (compare_tricks; the rules of the dominance      *)
(* relation between two combinations).                                     *)
(***************************************************************************)
IsBomb(t) == t \in {Some("FourOfAKind"), Some("StraightFlush")}

Highest(cards) ==
    LET d == Sort(CardNumbers(cards)) IN IF d = << >> THEN 0 ELSE d[Len(d)]

\* the rank of the three-of-a-kind of a full house
TripleRank(cards) ==
    LET values == CardNumbers(cards)
    IN CHOOSE x \in Range(values) : Occurrences(values, x) = 3

\* the number of a card, 0 when it has none
NumberOrZero(c) == IF GetCardNumber(c) = None THEN 0 ELSE GetCardNumber(c)[1]

\* a single card over a single card. The Dog never beats; the Dragon is never
\* beaten and beats every other single; the Dog is beaten by nothing else; a
\* Phoenix is accepted over every other card (tests.rs 623-627 and 641-645:
\* over a Phoenix, over the Ace); a real card beats a Phoenix of value v when
\* its number is at least v, and a real card when its number is higher.
SingleBeats(p, c) ==
    IF c.kind = "Dog" THEN FALSE
    ELSE IF p.kind = "Dragon" THEN FALSE
    ELSE IF c.kind = "Dragon" THEN TRUE
    ELSE IF p.kind = "Dog" THEN FALSE
    ELSE IF c.kind = "Phoenix" THEN TRUE
    ELSE IF p.kind = "Phoenix" THEN NumberOrZero(c) >= NumberOrZero(p)
    ELSE NumberOrZero(c) > NumberOrZero(p)

SameTypeBeats(t, previous, candidate) ==
    CASE t = "Single" -> SingleBeats(previous[1], candidate[1])
      [] t \in {"Pair", "Triple", "FourOfAKind"} ->
            Highest(candidate) > Highest(previous)
      [] t = "FullHouse" ->
            TripleRank(candidate) > TripleRank(previous)
      [] OTHER ->
            /\ Len(candidate) = Len(previous)
            /\ Highest(candidate) > Highest(previous)

\* compare_tricks(previous, candidate).is_ok()
CompareTricks(previous, candidate) ==
    LET tp == TrickTypeOf(previous)
        tc == TrickTypeOf(candidate)
    IN /\ tc # None
       /\ tp # None
       /\ IF tc = Some("StraightFlush") /\ tp # Some("StraightFlush") THEN TRUE
          ELSE IF tc = Some("StraightFlush")
               THEN Len(candidate) > Len(previous)
                    \/ SameTypeBeats("StraightFlush", previous, candidate)
          ELSE IF tc = Some("FourOfAKind") /\ tp = Some("StraightFlush") THEN FALSE
          ELSE IF tc = Some("FourOfAKind") /\ tp # Some("FourOfAKind") THEN TRUE
          ELSE tc = tp /\ SameTypeBeats(tc[1], previous, candidate)

(***************************************************************************)
(* Turn iterator (types.rs, impl Iterator for Round) and round engine      *)
(* (Game::play_turn, Game::cleanup_trick).                                 *)
(***************************************************************************)
\* accepted Pass turns explored after one Play
MaxPasses == 4

\* Round::next. The seating map holds the players; a player who has finished
\* has no hand (hand is None). The result is the returned Option<Sid> and the
\* new current player.
SkipNext(seq, pl, n) == IF pl[n].hand = None THEN seq[n] ELSE n

EndsTrickNever(prev_action, n, last_played) == FALSE

EndsTrick(prev_action, n, last_played) ==
    prev_action = Some("Pass") /\ n = last_played

RoundNext(seq, pl, cur, prev_action, last_played) ==
    LET n == SkipNext(seq, pl, seq[cur])
    IN IF EndsTrick(prev_action, n, last_played)
       THEN [item |-> None, current |-> last_played]
       ELSE [item |-> Some(n), current |-> n]

\* player_owns_cards: selected_cards.iter().all(|card| hand.cards.contains(card))
PlayerOwnsCards(h, cards) == \A i \in 1..Len(cards) : Contains(h, cards[i])

\* the hand without the played cards
RECURSIVE RemoveCards(_, _)
RemoveCards(h, cards) ==
    IF h = << >> THEN << >>
    ELSE IF Contains(cards, Head(h)) THEN RemoveCards(Tail(h), cards)
    ELSE << Head(h) >> \o RemoveCards(Tail(h), cards)

\* the turn is refused when the actor is not the current player
NotYourTurnNever(p) == FALSE

NotYourTurn(p) == current_player # Some(p)

\* what play_turn answers before it changes anything: "ok" or the error
PlayCheck(p, action, cards) ==
    IF ~has_round THEN "no round"
    ELSE IF p \notin DOMAIN players THEN "no player"
    ELSE IF NotYourTurn(p) THEN "not your turn"
    ELSE IF action = "Pass"
         THEN (IF current_trick = << >> THEN "must play" ELSE "ok")
    ELSE IF cards = None THEN "no cards"
    ELSE IF players[p].hand = None THEN "no hand"
    ELSE IF ~PlayerOwnsCards(players[p].hand[1], cards[1]) THEN "not your cards"
    ELSE IF TrickTypeOf(cards[1]) = None THEN "illegal trick"
    ELSE IF current_trick # << >>
            /\ ~CompareTricks(current_trick[Len(current_trick)], cards[1])
         THEN "illegal beat"
    ELSE "ok"

\* what a refused or accepted call leaves behind for observation
CallRecord(p, action, ok, ended) ==
    [op |-> "play_turn", player |-> p, action |-> action, ok |-> ok,
     ended |-> ended, was_current |-> current_player]

PlayRefusedButRecorded(p, action) ==
    /\ last_call' = CallRecord(p, action, FALSE, FALSE)
    /\ previous_action' = Some(action)
    /\ UNCHANGED << players, has_round, prev_next_player, current_player,
                    last_played_player, current_trick, current_trick_type,
                    first_to_finish, passes >>

\* Game::play_turn returning Err: the turn is rejected as a whole
PlayRefused(p, action) ==
    /\ last_call' = CallRecord(p, action, FALSE, FALSE)
    /\ UNCHANGED << players, roundVars, passes >>

\* Game::play_turn(Turn { player, action, cards }) -> Result<bool>; the
\* variables of the handler that calls it are left to the caller
PlayTurn(p, action, cards) ==
    /\ ~panicked
    /\ ~(last_call.op = "play_turn" /\ last_call.ok /\ last_call.ended)
    /\ LET check == PlayCheck(p, action, cards)
       IN IF check # "ok"
          THEN PlayRefused(p, action)
          ELSE IF action = "Pass"
          THEN /\ passes < MaxPasses
               /\ LET r == RoundNext(prev_next_player, players, p, Some("Pass"),
                                     last_played_player[1])
                  IN /\ previous_action' = Some("Pass")
                     /\ current_player' = Some(r.current)
                     /\ last_call' = CallRecord(p, action, TRUE, r.item = None)
               /\ passes' = passes + 1
               /\ UNCHANGED << players, has_round, prev_next_player, last_played_player,
                               current_trick, current_trick_type, first_to_finish >>
          ELSE LET left == RemoveCards(players[p].hand[1], cards[1])
                   pl == [players EXCEPT ![p].hand =
                             IF left = << >> THEN None ELSE Some(left)]
                   r == RoundNext(prev_next_player, pl, p, Some("Play"), p)
               IN /\ players' = pl
                  /\ current_trick' = Append(current_trick, cards[1])
                  /\ current_trick_type' = TrickTypeOf(cards[1])
                  /\ previous_action' = Some("Play")
                  /\ last_played_player' = Some(p)
                  /\ first_to_finish' =
                        IF left = << >> /\ first_to_finish = None
                        THEN Some(p) ELSE first_to_finish
                  /\ current_player' = Some(r.current)
                  /\ last_call' = CallRecord(p, action, TRUE, r.item = None)
                  /\ passes' = 0
                  /\ UNCHANGED << has_round, prev_next_player >>
    /\ UNCHANGED << phase, starting, max_time, team_events, panicked, dealVars >>

RECURSIVE SumPoints(_)
SumPoints(cards) ==
    IF cards = << >> THEN 0 ELSE GetPoints(Head(cards)) + SumPoints(Tail(cards))

\* the points of every card of every combination of the trick
TrickPoints(trick) == SumPoints(Flatten(trick))

\* Game::cleanup_trick, called when play_turn has reported the end of the
\* trick: the last aggressor captures the trick and leads the next one
CleanupTrick ==
    /\ ~panicked
    /\ has_round
    /\ last_call.op = "play_turn" /\ last_call.ok /\ last_call.ended
    /\ LET w == last_played_player[1]
       IN players' = [players EXCEPT ![w].trick_points = @ + TrickPoints(current_trick)]
    /\ current_trick' = << >>
    /\ current_trick_type' = None
    /\ current_player' = last_played_player
    /\ last_call' = [op |-> "cleanup_trick", trick |-> current_trick,
                     points_before |-> [s \in DOMAIN players |-> players[s].trick_points]]
    /\ passes' = 0
    /\ UNCHANGED << has_round, prev_next_player, last_played_player, previous_action,
                    first_to_finish >>
    /\ UNCHANGED << phase, starting, max_time, handlerVars, team_events, panicked, dealVars >>

(***************************************************************************)
(* The round engine on positions late in a round.                          *)
(***************************************************************************)
Seated == << "p1", "p2", "p3", "p4" >>

\* hands late in a round: every other card of the deck has been captured
LatePositions ==
    { [p1 |-> << Num("Two", "Black"), Num("Two", "Blue") >>,
       p2 |-> << Num("Five", "Black") >>,
       p3 |-> << Num("Ten", "Black"), Num("King", "Red") >>,
       p4 |-> << Phoenix(None), Dragon >>],
      [p1 |-> << Num("Three", "Black") >>,
       p2 |-> << Num("Four", "Black") >>,
       p3 |-> << Num("Five", "Red") >>,
       p4 |-> << Num("Six", "Red"), Num("Seven", "Red") >>] }

\* the points of the whole deck
DeckPoints == SumPoints(FullDeck)

PositionPoints(pos) == SumPoints(Flatten([i \in 1..Len(Seated) |-> pos[Seated[i]]]))

\* A round in progress right after a trick was captured by `leader`: the
\* trick is empty, the last action was the Pass that ended the trick, and
\* `holder` has captured the cards that are no longer in the hands.
RoundInit ==
    /\ \E pos \in LatePositions : \E leader \in Range(Seated) : \E holder \in Range(Seated) :
          /\ players = [s \in Range(Seated) |->
                [team |-> IF s \in {"p1", "p3"} THEN Some("One") ELSE Some("Two"),
                 hand |-> Some(pos[s]),
                 trick_points |-> IF s = holder THEN DeckPoints - PositionPoints(pos) ELSE 0]]
          /\ current_player = Some(leader)
          /\ last_played_player = Some(leader)
    /\ phase = Some("Playing")
    /\ starting = FALSE
    /\ max_time = None
    /\ guard = None
    /\ pending = << >>
    /\ emitted = {}
    /\ team_events = 0
    /\ panicked = FALSE
    /\ has_round = TRUE
    /\ prev_next_player = GeneratePlayerTurnSequence(Seated)
    /\ previous_action = Some("Pass")
    /\ current_trick = << >>
    /\ current_trick_type = None
    /\ first_to_finish = None
    /\ last_call = [op |-> "none"]
    /\ passes = 0
    /\ NoDeal

RECURSIVE PickIndices(_, _, _)
PickIndices(h, I, i) ==
    IF i > Len(h) THEN << >>
    ELSE IF i \in I THEN << h[i] >> \o PickIndices(h, I, i + 1)
    ELSE PickIndices(h, I, i + 1)

\* the non-empty selections of cards of a hand, in the order of the hand
Selections(h) == {PickIndices(h, I, 1) : I \in (SUBSET (1..Len(h))) \ {{}}}

\* the values a client may give the Phoenix it plays
PhoenixValues == {None, Some(3), Some(14)}

WithPhoenix(cards, v) ==
    [i \in 1..Len(cards) |->
        IF cards[i].kind = "Phoenix" THEN Phoenix(v) ELSE cards[i]]

HandOf(s) == IF players[s].hand = None THEN << >> ELSE players[s].hand[1]

\* the cards a client may submit: selections of its own hand with any value on
\* the Phoenix, a card of its hand named twice, and single cards of the other
\* hands
SubmittedCards(p) ==
    {WithPhoenix(sel, v) : sel \in Selections(HandOf(p)), v \in PhoenixValues}
        \cup {<< HandOf(p)[i], HandOf(p)[i] >> : i \in 1..Len(HandOf(p))}
        \cup UNION {{<< HandOf(q)[i] >> : i \in 1..Len(HandOf(q))} :
                        q \in (DOMAIN players) \ {p}}

RoundSpecNext ==
    \/ \E p \in DOMAIN players :
          PlayTurn(p, "Pass", None) /\ UNCHANGED handlerVars
    \/ \E p \in DOMAIN players : \E cards \in SubmittedCards(p) :
          PlayTurn(p, "Play", Some(cards)) /\ UNCHANGED handlerVars
    \/ CleanupTrick

\* the round engine: play_turn and cleanup_trick
SpecRound == RoundInit /\ [][RoundSpecNext]_vars

(***************************************************************************)
(* Claims about the seating and the start of a game.                       *)
(***************************************************************************)
Seats == DOMAIN prev_next_player

\* the seat reached from s by following the seating map n times
RECURSIVE Follow(_, _)
Follow(s, n) ==
    IF n = 0 \/ s \notin Seats THEN s ELSE Follow(prev_next_player[s], n - 1)

SingleFourCycle ==
    /\ Cardinality(Seats) = 4
    /\ \A s \in Seats :
          /\ Follow(s, 4) = s
          /\ {Follow(s, n) : n \in 0..3} = Seats

AlternatingTeams ==
    \A s \in Seats :
        /\ prev_next_player[s] \in DOMAIN players
        /\ s \in DOMAIN players
        /\ players[s].team # players[prev_next_player[s]].team

\* C6: in every state from game start on (the phase is Playing), also after
\* later player-swap-team and join-team events, the seating map is a single
\* 4-cycle over the four seated players, the current player is one of them,
\* and the successor of every seat belongs to the other team.
C6_SeatingInvariant ==
    (phase = Some("Playing") /\ ~panicked) =>
        /\ SingleFourCycle
        /\ current_player # None
        /\ current_player[1] \in Seats
        /\ AlternatingTeams

\* C7: in every state with an active round, the current player is a key of
\* the seating map.
C7_CurrentPlayerIsSeated ==
    (has_round /\ ~panicked) =>
        /\ current_player # None
        /\ current_player[1] \in Seats

Holders == {s \in DOMAIN players : HasMahjong(players[s])}

\* C8: right after a game was started on dealt cards, the current player is
\* the one and only player whose hand contains the Mahjong, and the same
\* player is recorded as the last player who played.
C8_StartingSeat ==
    (last_call.op = "start" /\ last_call.ok) =>
        /\ current_player # None
        /\ Holders = {current_player[1]}
        /\ last_played_player = current_player

C8_Witness ==
    /\ last_call.op = "start"
    /\ last_call.ok
    /\ current_player # None
    /\ HasMahjong(players[current_player[1]])
    /\ Cardinality(DOMAIN players) = 5

TeamMembers == {s \in DOMAIN players : players[s].team \in {Some("One"), Some("Two")}}

\* C10: after deal_cards, every member of team One and of team Two holds a
\* hand of exactly 14 cards, no card is held by two players, and every hand
\* is one of the newly generated hands.
C10_DealCards ==
    last_call.op = "deal_cards" =>
        /\ \A s \in TeamMembers :
              /\ players[s].hand # None
              /\ Len(players[s].hand[1]) = 14
        /\ \A s, t \in DOMAIN players :
              (s # t /\ players[s].hand # None /\ players[t].hand # None)
                 => Range(players[s].hand[1]) \cap Range(players[t].hand[1]) = {}
        /\ \A s \in DOMAIN players :
              players[s].hand # None => players[s].hand[1] \in Range(last_call.hands)

(***************************************************************************)
(* Claims about the round engine.                                          *)
(***************************************************************************)
AcceptedTurn == last_call.op = "play_turn" /\ last_call.ok

\* the seat Round::next looks at after `p` has acted: the successor of p, or
\* the successor of that seat when it holds no hand
SeatAfter(p) ==
    LET s1 == prev_next_player[p]
    IN IF players[s1].hand = None THEN prev_next_player[s1] ELSE s1

C2_TrickTermination ==
    (AcceptedTurn /\ last_call.action = "Pass" /\ passes >= NumHands - 1)
        => last_call.ended

\* the points of a card as the rules of the game give them
CardPoints(c) ==
    CASE c.kind = "Five" -> 5
      [] c.kind = "Ten" -> 10
      [] c.kind = "King" -> 10
      [] c.kind = "Dragon" -> 25
      [] c.kind = "Phoenix" -> 0 - 25
      [] OTHER -> 0

RECURSIVE StackPoints(_)
StackPoints(trick) ==
    IF trick = << >> THEN 0
    ELSE LET top == Head(trick)
             here == [i \in 1..Len(top) |-> CardPoints(top[i])]
             Sum[k \in 0..Len(top)] == IF k = 0 THEN 0 ELSE here[k] + Sum[k - 1]
         IN Sum[Len(top)] + StackPoints(Tail(trick))

\* C3: cleanup_trick adds the points of every card of the trick to the last
\* aggressor's trick_points, leaves the other players' trick_points alone,
\* empties the trick, clears its type and makes the last aggressor the
\* current player.
C3_TrickCapture ==
    last_call.op = "cleanup_trick" =>
        LET w == last_played_player[1]
        IN /\ players[w].trick_points =
                 last_call.points_before[w] + StackPoints(last_call.trick)
           /\ \A s \in (DOMAIN players) \ {w} :
                 players[s].trick_points = last_call.points_before[s]
           /\ current_trick = << >>
           /\ current_trick_type = None
           /\ current_player = Some(w)

\* a trick of several combinations that is worth points has been captured
C3_Witness ==
    /\ last_call.op = "cleanup_trick"
    /\ Len(last_call.trick) >= 2
    /\ StackPoints(last_call.trick) # 0
    /\ players[last_played_player[1]].trick_points
          # last_call.points_before[last_played_player[1]]

\* C4: play_turn by a player who is not the current player is an error, for a
\* Play and for a Pass.
C4_NotYourTurn ==
    (last_call.op = "play_turn" /\ Some(last_call.player) # last_call.was_current)
        => ~last_call.ok

\* a player other than the current one has submitted cards of their own hand
\* onto a trick in progress
C4_Witness ==
    /\ last_call.op = "play_turn"
    /\ Some(last_call.player) # last_call.was_current
    /\ last_call.action = "Play"
    /\ ~last_call.ok
    /\ current_trick # << >>
    /\ players[last_call.player].hand # None

\* the players who still hold cards
Unfinished == {s \in DOMAIN players : players[s].hand # None}

\* C5: while at least two players still hold cards, a turn that does not end
\* the trick never makes a finished player the current player.
C5_SkipsFinished ==
    (AcceptedTurn /\ ~last_call.ended /\ Cardinality(Unfinished) >= 2)
        => current_player[1] \in Unfinished

\* how often a card occurs in a sequence of cards (a Phoenix whatever its value)
CountCard(cards, c) == Cardinality({i \in 1..Len(cards) : CardEq(cards[i], c)})

\* the cards in the hands and on the trick stack
CardsInPlay ==
    Flatten([i \in 1..Len(Seated) |-> HandOf(Seated[i])]) \o Flatten(current_trick)

\* C11: no card is duplicated or lost: every step keeps, for every card of the
\* deck, the number of its copies in the hands and on the trick stack, the
\* cards of a captured trick leaving play with the capture; so a Play moves
\* exactly the played cards from the hand to the stack.
C11_CardConservation ==
    [][\A i \in 1..Len(FullDeck) :
          CountCard(CardsInPlay', FullDeck[i])
             + (IF last_call'.op = "cleanup_trick"
                THEN CountCard(Flatten(last_call'.trick), FullDeck[i]) ELSE 0)
          = CountCard(CardsInPlay, FullDeck[i])]_vars

CardsHeld(s) == Len(HandOf(s))

\* C12: no step increases a player's hand size, and no step
\* decreases a player's trick_points.
C12_Monotonic ==
    [][\A s \in DOMAIN players :
          /\ CardsHeld(s)' <= CardsHeld(s)
          /\ players'[s].trick_points >= players[s].trick_points]_vars

(***************************************************************************)
(* The classifier and the comparator on their own: TrickType::try_from and *)
(* compare_tricks are pure, and are applied here to card lists drawn from  *)
(* bounded pools (tests.rs calls them the same way, on literal card lists).*)
(***************************************************************************)
\* groups of equal cards (pairs, triples, fours, full houses) are built for
\* the numbers 2..MaxGroupRank
MaxGroupRank == 4

\* straights and sequences of pairs end at a number of at most MaxStraightTop
MaxStraightTop == 8

\* straights and sequences of pairs have at most MaxStraightLen cards
MaxStraightLen == 6

\* the card lists handed to the classifier alone have 2..MaxClassLen cards
MaxClassLen == 6

\* the combinations of at most MaxShuffleLen cards, and the other card lists
\* of at most MaxShuffleClassLen cards, are classified in every order
MaxShuffleLen == 5

MaxShuffleClassLen == 3

\* the card with number n: the Mahjong for 1, Two..Ace for 2..14
CardOf(n, color) == IF n = 1 THEN MahjongCard ELSE Num(Ranks[n - 1], color)

\* the combinations the comparator is applied to, by the TrickType they are
\* built as. Groups of equal cards: natural, and with the Phoenix standing for
\* one card. Full houses of three cards of number t and two of number p (of
\* the lower numbers): all
\* natural, or the Phoenix standing for a card of the three, or of the two.
\* Straights: of mixed colours (with the Mahjong when they start at 1), and the
\* same with the Phoenix as the highest card. Straight flushes: natural cards
\* of one colour. Sequences of pairs: k pairs of consecutive numbers.
Pools ==
    LET ranks == 2..MaxGroupRank
        tp == {x \in ranks \X ranks : x[1] # x[2] /\ x[1] + x[2] <= MaxGroupRank + 1}
        runs == {x \in (1..MaxStraightTop) \X (5..MaxStraightLen) :
                    x[1] + x[2] - 1 <= MaxStraightTop}
        pairRuns == {x \in (2..MaxStraightTop) \X (2..MaxStraightLen) :
                        2 * x[2] <= MaxStraightLen /\ x[1] + x[2] - 1 <= MaxStraightTop}
    IN [Single |->
           {<< CardOf(n, "Black") >> : n \in 2..14}
           \cup {<< CardOf(n, "Blue") >> : n \in ranks \cup {14}}
           \cup {<< Dog >>, << Dragon >>, << MahjongCard >>}
           \cup {<< Phoenix(Some(v)) >> : v \in (1..MaxGroupRank) \cup {14}},
        Pair |->
           {<< CardOf(n, "Black"), CardOf(n, "Blue") >> : n \in ranks}
           \cup {<< CardOf(n, "Red"), CardOf(n, "Green") >> : n \in ranks}
           \cup {<< CardOf(n, "Black"), Phoenix(Some(n)) >> : n \in ranks},
        Triple |->
           {<< CardOf(n, "Black"), CardOf(n, "Blue"), CardOf(n, "Red") >> : n \in ranks}
           \cup {<< CardOf(n, "Blue"), CardOf(n, "Red"), CardOf(n, "Green") >> : n \in ranks}
           \cup {<< Phoenix(Some(n)), CardOf(n, "Black"), CardOf(n, "Blue") >> : n \in ranks},
        FourOfAKind |->
           {[i \in 1..4 |-> CardOf(n, Colors[i])] : n \in ranks},
        FullHouse |->
           {<< CardOf(x[1], "Black"), CardOf(x[1], "Blue"), CardOf(x[1], "Red"),
               CardOf(x[2], "Black"), CardOf(x[2], "Blue") >> : x \in tp}
           \cup {<< CardOf(x[1], "Black"), CardOf(x[1], "Blue"), Phoenix(Some(x[1])),
                    CardOf(x[2], "Black"), CardOf(x[2], "Blue") >> : x \in tp}
           \cup {<< CardOf(x[1], "Black"), CardOf(x[1], "Blue"), CardOf(x[1], "Red"),
                    CardOf(x[2], "Black"), Phoenix(Some(x[2])) >> : x \in tp},
        Straight |->
           {[i \in 1..x[2] |-> CardOf(x[1] + i - 1, IF i = 2 THEN "Blue" ELSE "Black")] :
               x \in runs}
           \cup {[i \in 1..x[2] |-> IF i = x[2] THEN Phoenix(Some(x[1] + i - 1))
                                    ELSE CardOf(x[1] + i - 1, "Black")] : x \in runs},
        StraightFlush |->
           {[i \in 1..x[2] |-> CardOf(x[1] + i - 1, "Black")] : x \in {y \in runs : y[1] >= 2}}
           \cup {[i \in 1..x[2] |-> CardOf(x[1] + i - 1, "Red")] :
                    x \in {y \in runs : y[1] >= 2}},
        SequenceOfPairs |->
           {[i \in 1..(2 * x[2]) |-> CardOf(x[1] + ((i - 1) \div 2),
                                             IF i % 2 = 1 THEN "Black" ELSE "Blue")] :
               x \in pairRuns}]

CombinationPool == UNION {Pools[t] : t \in DOMAIN Pools}

\* the card lists the classifier alone is applied to: the lists of distinct
\* cards of 2..MaxClassLen cards out of thirteen cards of the deck, in the
\* order of the deck, alone or behind the Phoenix (without a value, with the
\* value 0, 2 or 3)
ClassPool ==
    LET cards == << CardOf(2, "Black"), CardOf(2, "Blue"), CardOf(2, "Red"),
                    CardOf(2, "Green"), CardOf(3, "Black"), CardOf(3, "Blue"),
                    CardOf(4, "Black"), CardOf(4, "Blue"), CardOf(5, "Black"),
                    CardOf(6, "Black"), MahjongCard, Dog, Dragon >>
        plain == {SelectIn(cards, S) : S \in SUBSET Range(cards)}
        phoenix == {Phoenix(None), Phoenix(Some(0)), Phoenix(Some(2)), Phoenix(Some(3))}
    IN {cs \in plain \cup {<< x[1] >> \o x[2] : x \in phoenix \X plain} :
           Len(cs) \in 2..MaxClassLen}

\* the card lists that are classified in every order of their cards
ShufflePool ==
    {cs \in CombinationPool : Len(cs) <= MaxShuffleLen}
    \cup {cs \in ClassPool : Len(cs) <= MaxShuffleClassLen}

\* one card list to classify, two combinations to compare in both orders,
\* three combinations of one TrickType, or a card list and a reordering of it
CompareInit ==
    /\ NoDeal
    /\ players = << >>
    /\ phase = None
    /\ starting = FALSE
    /\ max_time = None
    /\ guard = None
    /\ pending = << >>
    /\ emitted = {}
    /\ team_events = 0
    /\ panicked = FALSE
    /\ has_round = FALSE
    /\ prev_next_player = << >>
    /\ current_player = None
    /\ last_played_player = None
    /\ previous_action = None
    /\ current_trick_type = None
    /\ first_to_finish = None
    /\ last_call = [op |-> "none"]
    /\ passes = 0
    /\ \/ \E cs \in ClassPool : current_trick = << cs >>
       \/ \E a, b \in CombinationPool : current_trick = << a, b >>
       \/ \E t \in DOMAIN Pools \ {"SequenceOfPairs"} : \E a, b, c \in Pools[t] : current_trick = << a, b, c >>
       \/ \E cs \in ShufflePool : \E order \in OrdersOf(1..Len(cs)) :
             current_trick = << cs, [i \in 1..Len(cs) |-> cs[order[i]]] >>

\* TrickType::try_from(cards)
Classify ==
    /\ last_call.op = "none"
    /\ Len(current_trick) = 1
    /\ last_call' = [op |-> "try_from", type |-> TrickTypeOf(current_trick[1])]
    /\ UNCHANGED << dealVars, gameVars, roundVars, passes >>

\* compare_tricks(previous, candidate) for every two of the drawn
\* combinations: ok[i][j] is the result for previous i and candidate j
Compare ==
    /\ last_call.op = "none"
    /\ Len(current_trick) > 1
    /\ last_call' =
          [op |-> "compare_tricks",
           types |-> [i \in 1..Len(current_trick) |-> TrickTypeOf(current_trick[i])],
           ok |-> [i \in 1..Len(current_trick) |->
                     [j \in 1..Len(current_trick) |->
                        CompareTricks(current_trick[i], current_trick[j])]]]
    /\ UNCHANGED << dealVars, gameVars, roundVars, passes >>

CompareNext == Classify \/ Compare

SpecCompare == CompareInit /\ [][CompareNext]_vars

(***************************************************************************)
(* Claims about the comparator. The shapes below are read off the cards,   *)
(* without the classifier.                                                 *)
(***************************************************************************)
\* the number printed on a numeric card
FaceNumber(c) == NumericRank(c.kind) + 1

\* four numeric cards of one rank, in the four colours
IsNaturalFour(cs) ==
    /\ Len(cs) = 4
    /\ \A i \in 1..4 : IsNumeric(cs[i]) /\ cs[i].kind = cs[1].kind
    /\ \A i, j \in 1..4 : i # j => cs[i].color # cs[j].color

\* five or more numeric cards of one colour with consecutive numbers
IsNaturalFlush(cs) ==
    /\ Len(cs) >= 5
    /\ \A i \in 1..Len(cs) : IsNumeric(cs[i]) /\ cs[i].color = cs[1].color
    /\ \E lo \in 2..14 :
          {FaceNumber(cs[i]) : i \in 1..Len(cs)} = lo..(lo + Len(cs) - 1)

GroupOf(cs, S, r) ==
    \A i \in S : \/ IsNumeric(cs[i]) /\ FaceNumber(cs[i]) = r
                 \/ cs[i].kind = "Phoenix" /\ cs[i].value = Some(r)

\* the ranks r such that cs is k cards of rank r
GroupRanks(cs, k) == IF Len(cs) # k THEN {} ELSE {r \in 2..14 : GroupOf(cs, 1..k, r)}

\* the ranks t such that cs is three cards of rank t and two of another rank
TripleRanks(cs) ==
    IF Len(cs) # 5 THEN {}
    ELSE {t \in 2..14 :
             LET S == {i \in 1..5 : GroupOf(cs, {i}, t)}
             IN /\ Cardinality(S) = 3
                /\ \E p \in (2..14) \ {t} : GroupOf(cs, (1..5) \ S, p)}

\* C14: a candidate that is not a bomb and whose type differs from the type of
\* the previous combination is rejected; a pair over a pair and a triple over
\* a triple is accepted exactly when its rank is strictly greater, and a full
\* house over a full house exactly when the rank of its three equal cards is
\* strictly greater, the Phoenix counting at the rank it stands for.
C14_SameTypeRank ==
    last_call.op = "compare_tricks" =>
       \A i, j \in 1..Len(current_trick) :
          LET p == current_trick[i]
              c == current_trick[j]
              ok == last_call.ok[i][j]
          IN /\ /\ last_call.types[j] \notin {Some("FourOfAKind"), Some("StraightFlush")}
                /\ last_call.types[j] # last_call.types[i]
                => ~ok
             /\ \A k \in 2..3 : \A rp \in GroupRanks(p, k) : \A rc \in GroupRanks(c, k) :
                   ok <=> rc > rp
             /\ \A tp \in TripleRanks(p) : \A tc \in TripleRanks(c) :
                   ok <=> tc > tp

\* a full house with the Phoenix among its three equal cards was accepted over
\* a full house of a lower three but a higher pair
C14_Witness ==
    /\ last_call.op = "compare_tricks"
    /\ \E tp \in TripleRanks(current_trick[1]) : \E tc \in TripleRanks(current_trick[2]) :
          /\ tc > tp
          /\ GroupRanks(SelectSeq(current_trick[1], LAMBDA x : ~GroupOf(<< x >>, {1}, tp)), 2)
                = {tc}
    /\ \E x \in 1..5 : current_trick[2][x].kind = "Phoenix"
    /\ last_call.ok[1][2]
    /\ ~last_call.ok[2][1]

\* the highest numbers h such that cs is a straight ending at h: five or more
\* cards with the consecutive numbers up to h (Mahjong 1, Phoenix its value),
\* not all natural cards of one colour
StraightTops(cs) ==
    {h \in 5..14 : /\ Len(cs) >= 5
                   /\ h - Len(cs) + 1 >= 1
                   /\ {NumberOrZero(cs[i]) : i \in 1..Len(cs)} = (h - Len(cs) + 1)..h
                   /\ ~IsNaturalFlush(cs)}

\* the highest numbers h such that cs is a sequence of pairs ending at h: two
\* cards of each of the consecutive numbers up to h
PairRunTops(cs) ==
    {h \in 3..14 : /\ Len(cs) >= 4
                   /\ Len(cs) % 2 = 0
                   /\ h - (Len(cs) \div 2) + 1 >= 2
                   /\ \A i \in 1..Len(cs) :
                         NumberOrZero(cs[i]) \in (h - (Len(cs) \div 2) + 1)..h
                   /\ \A n \in (h - (Len(cs) \div 2) + 1)..h :
                         Cardinality({i \in 1..Len(cs) : NumberOrZero(cs[i]) = n}) = 2}

\* C15: a straight over a straight, and a sequence of pairs over a sequence of
\* pairs, is accepted exactly when both have the same number of cards and the
\* highest number of the candidate is strictly greater.
C15_StraightComparison ==
    last_call.op = "compare_tricks" =>
       \A i, j \in 1..Len(current_trick) :
          LET p == current_trick[i]
              c == current_trick[j]
              ok == last_call.ok[i][j]
          IN /\ \A hp \in StraightTops(p) : \A hc \in StraightTops(c) :
                   ok <=> (Len(c) = Len(p) /\ hc > hp)
             /\ \A hp \in PairRunTops(p) : \A hc \in PairRunTops(c) :
                   ok <=> (Len(c) = Len(p) /\ hc > hp)

\* C16: a natural single over a natural single is accepted exactly when its
\* rank is strictly higher, whatever the colours; the Dragon is accepted over
\* every other single and no single is accepted over the Dragon; every card
\* Two..Ace is accepted over the Mahjong; the Dog is accepted over nothing.
C16_SingleComparison ==
    last_call.op = "compare_tricks" =>
       \A i, j \in 1..Len(current_trick) :
          LET p == current_trick[i]
              c == current_trick[j]
              ok == last_call.ok[i][j]
              single(x) == Len(x) = 1
              natural(x) == Len(x) = 1 /\ IsNumeric(x[1])
          IN /\ natural(p) /\ natural(c) => (ok <=> FaceNumber(c[1]) > FaceNumber(p[1]))
             /\ single(p) /\ p # << Dragon >> /\ c = << Dragon >> => ok
             /\ p = << Dragon >> /\ single(c) => ~ok
             /\ p = << MahjongCard >> /\ natural(c) => ok
             /\ c = << Dog >> => ~ok

\* the Dragon was accepted over the Ace, the Ace rejected over the Dragon and
\* the Dog rejected over the Ace
C16_Witness ==
    /\ last_call.op = "compare_tricks"
    /\ current_trick = << << CardOf(14, "Black") >>, << Dragon >>, << Dog >> >>
    /\ last_call.ok[1][2]
    /\ ~last_call.ok[2][1]
    /\ ~last_call.ok[1][3]

\* C17: a natural card of rank v is accepted over the single Phoenix of value
\* v, and the single Phoenix of value v is rejected over a natural card of
\* rank v.
C17_PhoenixSingleTie ==
    last_call.op = "compare_tricks" =>
       \A i, j \in 1..Len(current_trick) : \A v \in 2..14 :
          LET phoenix(x) == x = << Phoenix(Some(v)) >>
              natural(x) == Len(x) = 1 /\ IsNumeric(x[1]) /\ FaceNumber(x[1]) = v
          IN /\ phoenix(current_trick[i]) /\ natural(current_trick[j]) => last_call.ok[i][j]
             /\ natural(current_trick[i]) /\ phoenix(current_trick[j]) => ~last_call.ok[i][j]

\* C18: no combination that is not a bomb, with or without the Phoenix, is
\* accepted over itself.
C18_Irreflexive ==
    last_call.op = "compare_tricks" =>
       \A i \in 1..Len(current_trick) :
          last_call.types[i] \notin {None, Some("FourOfAKind"), Some("StraightFlush")}
             => ~last_call.ok[i][i]

\* C19: for combinations a, b, c of one TrickType, if b is accepted over a and
\* c over b, then c is accepted over a.
C19_Transitive ==
    last_call.op = "compare_tricks" =>
       \A a, b, c \in 1..Len(current_trick) :
          /\ last_call.types[a] # None
          /\ last_call.types[b] = last_call.types[a]
          /\ last_call.types[c] = last_call.types[a]
          /\ last_call.ok[a][b]
          /\ last_call.ok[b][c]
          => last_call.ok[a][c]

(***************************************************************************)
(* Claims about the classifier.                                            *)
(***************************************************************************)
\* C20: two cards classify as Pair, and three cards as Triple, exactly when
\* they are numeric cards of one rank, or numeric cards of one rank and the
\* Phoenix with that rank as its value; with the Phoenix at another value
\* they are rejected.
C20_PairTripleClassification ==
    last_call.op = "try_from" =>
       LET cs == current_trick[1]
           k == Len(cs)
           phoenixes == {i \in 1..k : cs[i].kind = "Phoenix"}
       IN k \in 2..3 =>
             (last_call.type = Some(IF k = 2 THEN "Pair" ELSE "Triple")
                <=> (GroupRanks(cs, k) # {} /\ Cardinality(phoenixes) <= 1))

C22_SequenceOfPairsClassification ==
    last_call.op = "try_from" =>
       (last_call.type = Some("SequenceOfPairs") <=> PairRunTops(current_trick[1]) # {})

\* C23: cards classify as Straight or StraightFlush exactly when they are five
\* or more cards whose numbers (Mahjong 1, Phoenix its value) are distinct and
\* consecutive, and as StraightFlush exactly when they are moreover natural
\* numeric cards of one colour.
C23_StraightClassification ==
    last_call.op = "try_from" =>
       LET cs == current_trick[1]
       IN /\ last_call.type \in {Some("Straight"), Some("StraightFlush")}
                <=> (StraightTops(cs) # {} \/ IsNaturalFlush(cs))
          /\ last_call.type = Some("StraightFlush") <=> IsNaturalFlush(cs)

\* C24: two or more cards with the Dog or the Dragon among them are rejected,
\* and two or more cards with the Mahjong among them are accepted as a
\* Straight only.
C24_SpecialCardsSingleOnly ==
    last_call.op = "try_from" =>
       LET cs == current_trick[1]
           kinds == {cs[i].kind : i \in 1..Len(cs)}
       IN /\ kinds \cap {"Dog", "Dragon"} # {} => last_call.type = None
          /\ "Mahjong" \in kinds => last_call.type \in {None, Some("Straight")}

\* C25: a card list and every reordering of it are classified alike: as the
\* same TrickType, or both rejected.
C25_OrderIndependent ==
    last_call.op = "compare_tricks" =>
       \A i, j \in 1..Len(current_trick) :
          /\ Len(current_trick[i]) = Len(current_trick[j])
          /\ Range(current_trick[i]) = Range(current_trick[j])
          => last_call.types[i] = last_call.types[j]

\* a straight with the Mahjong and a different order of its cards were both
\* classified as Straight
C25_Witness ==
    /\ last_call.op = "compare_tricks"
    /\ Len(current_trick) = 2
    /\ current_trick[1] # current_trick[2]
    /\ Range(current_trick[1]) = Range(current_trick[2])
    /\ MahjongCard \in Range(current_trick[1])
    /\ Head(current_trick[2]) # MahjongCard
    /\ last_call.types = << Some("Straight"), Some("Straight") >>

(***************************************************************************)
(* Card exchange (core.rs, validate_exchange).                             *)
(***************************************************************************)
\* entries of an offered exchange that are explored: 0..MaxOffers
MaxOffers == 4

\* derive(Ord) for Cards: the position of the variant in the enum, then the
\* payload; every Color compares Equal and a Phoenix is ordered by its value,
\* None first
CardOrd(c) ==
    LET variant == IF c.kind = "Dog" THEN 0
                   ELSE IF c.kind = "Mahjong" THEN 1
                   ELSE IF IsNumeric(c) THEN NumericRank(c.kind) + 1
                   ELSE IF c.kind = "Phoenix" THEN 15
                   ELSE 16
        payload == IF c.kind = "Phoenix" /\ c.value # None THEN c.value[1] + 1 ELSE 0
    IN variant * 257 + payload

\* unique_cards.sort(); unique_cards.dedup(): a stable sort under the order
\* above, then of every run of consecutive equal cards the first is kept
UniqueCards(cards) ==
    LET RECURSIVE InsertCard(_, _)
        InsertCard(c, sorted) ==
            IF sorted = << >> THEN << c >>
            ELSE IF CardOrd(c) <= CardOrd(Head(sorted)) THEN << c >> \o sorted
            ELSE << Head(sorted) >> \o InsertCard(c, Tail(sorted))
        RECURSIVE SortCards(_)
        SortCards(v) ==
            IF v = << >> THEN << >> ELSE InsertCard(Head(v), SortCards(Tail(v)))
        RECURSIVE Dedup(_)
        Dedup(v) ==
            IF Len(v) <= 1 THEN v
            ELSE IF CardEq(v[1], v[2]) THEN Dedup(<< v[1] >> \o Tail(Tail(v)))
            ELSE << v[1] >> \o Dedup(Tail(v))
    IN Dedup(SortCards(cards))

\* validate_exchange(player_id, exchange, game_store): the answer for the
\* offer player_card (recipient username |-> card), whose values the HashMap
\* yields in the order `order`; a player's username is its key here
ValidateExchangeAnswer(known, player_id, player_card, order) ==
    LET unique_cards == UniqueCards([i \in 1..Len(order) |-> player_card[order[i]]])
    IN IF ~known THEN "Game not found"
       ELSE IF player_id \notin DOMAIN players THEN "failed getting player"
       ELSE IF player_id \in DOMAIN player_card THEN "cant exchange with yourself"
       ELSE IF Len(unique_cards) # 3 THEN "failed to exchange cards, must be 3 unique cards"
       ELSE IF players[player_id].hand = None THEN "failed to exchange cards, player has no hand"
       ELSE IF ~PlayerOwnsCards(players[player_id].hand[1], unique_cards)
       THEN "failed to exchange cards, player does not own all cards"
       ELSE "Ok"

\* a game of four players; p1 has no hand, or holds one of four hands
ExchangeInit ==
    /\ \E h \in {None,
                 Some(<< CardOf(2, "Black"), CardOf(2, "Blue"), CardOf(3, "Black"), Phoenix(None) >>),
                 Some(<< CardOf(2, "Black"), CardOf(2, "Blue"), CardOf(3, "Black"), CardOf(4, "Black") >>),
                 Some(<< CardOf(2, "Black"), CardOf(3, "Black"), Phoenix(Some(14)) >>),
                 Some(<< CardOf(2, "Black"), CardOf(2, "Blue"), Dragon >>)} :
          players = [FourPlayers({"p1", "p2"}) EXCEPT !["p1"].hand = h]
    /\ NoRound
    /\ NoDeal

\* one call of validate_exchange: by the seated player p1 or by the socket
\* p5 that never joined, for a game id that is known or not, with an offer of
\* up to MaxOffers entries in any iteration order of its HashMap
ValidateExchange ==
    /\ last_call.op = "none"
    /\ \E player_id \in {"p1", "p5"} : \E known \in BOOLEAN :
       \E names \in {S \in SUBSET Sids : Cardinality(S) <= MaxOffers} :
       \E player_card \in [names -> {CardOf(2, "Black"), CardOf(2, "Blue"), CardOf(3, "Black"),
                                     Phoenix(None), Phoenix(Some(2))}] :
       \E order \in OrdersOf(names) :
          last_call' = [op |-> "validate_exchange", player |-> player_id,
                        known |-> known, player_card |-> player_card,
                        answer |-> ValidateExchangeAnswer(known, player_id, player_card, order)]
    /\ UNCHANGED << dealVars, gameVars, roundVars, passes >>

SpecExchange == ExchangeInit /\ [][ValidateExchange]_vars

\* the hand of the proposer of the recorded call, << >> without one
ProposerHand ==
    IF last_call.player \in DOMAIN players /\ players[last_call.player].hand # None
    THEN players[last_call.player].hand[1] ELSE << >>

C27_ValidateExchange ==
    last_call.op = "validate_exchange" =>
       LET player_card == last_call.player_card
       IN last_call.answer = "Ok" <=>
             /\ last_call.known
             /\ last_call.player \in DOMAIN players
             /\ players[last_call.player].hand # None
             /\ Cardinality(DOMAIN player_card) = 3
             /\ \A a, b \in DOMAIN player_card :
                   a # b => ~CardEq(player_card[a], player_card[b])
             /\ last_call.player \notin DOMAIN player_card
             /\ \A a \in DOMAIN player_card : Contains(ProposerHand, player_card[a])

(***************************************************************************)
(* Team assignment (handlers.rs, join_team).                               *)
(***************************************************************************)
\* create_lobby: the game holds the player who created it, without a team
TeamsInit ==
    /\ players = ("p1" :> NewPlayer)
    /\ NoRound
    /\ NoDeal

\* players connect and send join_team requests, in any number and order
TeamsNext ==
    \/ \E s \in Sids : ConnectLobby(s)
    \/ \E s \in Sids : \E team \in {"One", "Two", "Spectator"} :
          JoinTeam(s, team) /\ UNCHANGED team_events

SpecTeams == TeamsInit /\ [][TeamsNext]_vars

\* C28: a join_team request for team One or Two that already has two members
\* is refused with 'Team is full', a request for the team the player is on is
\* refused, both leave every team unchanged, every other request (Spectator
\* included) is granted, and neither team One nor team Two ever has more than
\* two members.
C28_JoinTeam ==
    /\ [](\A team \in {"One", "Two"} :
             Cardinality({q \in DOMAIN players : players[q].team = Some(team)}) <= 2)
    /\ [][last_call'.op = "join_team" =>
             LET s == last_call'.player
                 team == last_call'.team
             IN /\ last_call'.answer = "Player already in team" <=> players[s].team = Some(team)
                /\ last_call'.answer = "Team is full" <=>
                      /\ players[s].team # Some(team)
                      /\ team \in {"One", "Two"}
                      /\ Cardinality({q \in DOMAIN players : players[q].team = Some(team)}) = 2
                /\ last_call'.answer # "Joined team" => players' = players
                /\ last_call'.answer = "Joined team" =>
                      /\ players'[s].team = Some(team)
                      /\ \A q \in DOMAIN players \ {s} : players'[q] = players[q]]_vars

\* both teams have two members and a fifth player was refused with 'Team is
\* full'
C28_Witness ==
    /\ TeamCount(players, "One") = 2
    /\ TeamCount(players, "Two") = 2
    /\ Cardinality(DOMAIN players) = 5
    /\ last_call.op = "join_team"
    /\ last_call.answer = "Team is full"
    /\ players[last_call.player].team \in {None, Some("Spectator")}

\* C29: start_game succeeds if and only if exactly two players are on team
\* One and exactly two on team Two, whatever the number of spectators; a
\* refused request deals no cards, sets no phase and creates no round.
C29_StartGame ==
    [][last_call'.op = "start_game" =>
          /\ last_call'.ok <=>
                \A team \in {"One", "Two"} :
                   Cardinality({q \in DOMAIN players : players[q].team = Some(team)}) = 2
          /\ ~last_call'.ok => UNCHANGED << players, phase, starting, max_time, roundVars >>]_vars

(***************************************************************************)
(* Exchange loop (handlers.rs, start_none_blocking_exchange_loop).         *)
(***************************************************************************)
\* let mut max_time = 2
ExchangeMaxTime == 2

\* start_none_blocking_exchange_loop(game_id, app_state), called in the place
\* of skip_exchange once start_game has released the store: the thread of the
\* loop is spawned (one thread of the loop is followed at a time)
SpawnExchangeLoop ==
    /\ ~panicked
    /\ starting
    /\ max_time = None
    /\ starting' = FALSE
    /\ max_time' = Some(ExchangeMaxTime)
    /\ last_call' = [op |-> "exchange_loop", answer |-> "spawned"]
    /\ UNCHANGED << players, phase, team_events, panicked, handlerVars, dealVars, roundVars, passes >>

\* one iteration of the loop: after a second max_time is decremented; at 0
\* "disconnect" is emitted and the loop ends; otherwise, when every player has
\* an exchange, the game is started and the phase becomes Playing. The handler
\* that stores a player's exchange is not part of src: whether all players
\* have one is an input of the iteration.
ExchangeLoop ==
    /\ ~panicked
    /\ max_time # None
    /\ IF max_time[1] - 1 = 0
       THEN /\ max_time' = None
            /\ last_call' = [op |-> "exchange_loop", answer |-> "timeout"]
            /\ UNCHANGED << phase, panicked, roundVars >>
       ELSE \E exchanged \in BOOLEAN :
               IF exchanged
               THEN /\ max_time' = None
                    /\ \E order \in IterOrders(players) : StartEffect(order)
                    /\ phase' = IF panicked' THEN phase ELSE Some("Playing")
               ELSE /\ max_time' = Some(max_time[1] - 1)
                    /\ last_call' = [op |-> "exchange_loop", answer |-> "waiting"]
                    /\ UNCHANGED << phase, panicked, roundVars >>
    /\ UNCHANGED << players, starting, team_events, handlerVars, dealVars, passes >>

\* start_game followed by the exchange loop, on a lobby of four players
SpecLoop == LobbyInit /\ [][StartGame \/ SpawnExchangeLoop \/ ExchangeLoop]_vars

\* C30: when the timer of the exchange phase expires the game is in the
\* Playing phase with a round, whether or not all players have exchanged; it
\* does not stay in Exchanging.
C30_ExchangeTimeout ==
    last_call = [op |-> "exchange_loop", answer |-> "timeout"] =>
       /\ phase = Some("Playing")
       /\ has_round

\* C34: no core operation aborts: seating construction, the start of the
\* playing phase and the advance of the turn return a value or an error in
\* every game state, they never panic.
C34_Totality == last_call.op \in {"start", "play_turn"} => ~panicked

\* C38: a start_game request for a game whose phase is already Exchanging or
\* Playing is rejected and leaves the hands and the round unchanged; the
\* phase only moves forward, from unset to Exchanging to Playing.
C38_PhaseGuard ==
    [][/\ last_call'.op = "start_game" /\ phase # None =>
             /\ ~last_call'.ok
             /\ UNCHANGED << players, roundVars >>
       /\ phase # phase' =>
             \/ phase = None
             \/ phase = Some("Exchanging") /\ phase' = Some("Playing")]_vars

\* C39: whenever a round is in progress and it is some player's turn, that
\* player holds at least one card.
C39_NoStuckTurn ==
    (has_round /\ current_player # None /\ ~(last_call.op = "play_turn" /\ last_call.ok /\ last_call.ended))
       => players[current_player[1]].hand # None

\* C40: every combination of two or more cards that the classifier accepts
\* and that contains the Phoenix has the Phoenix assigned a value in 1..14,
\* in 2..14 inside a straight; a Phoenix with a value outside that range is
\* rejected in any combination.
C40_PhoenixValueRange ==
    last_call.op = "try_from" /\ last_call.type # None =>
       \A i \in 1..Len(current_trick[1]) :
          LET c == current_trick[1][i]
          IN c.kind = "Phoenix" =>
                /\ c.value # None
                /\ c.value[1] \in 1..14
                /\ last_call.type \in {Some("Straight"), Some("StraightFlush")} => c.value[1] \in 2..14

\* C35: whenever play_turn returns an error, every hand, the trick stack, the
\* trick type, the current player, the last aggressor, the last action and
\* all trick_points are as before the call.
C35_UnchangedOnError ==
    [][last_call'.op = "play_turn" /\ ~last_call'.ok =>
          /\ players' = players
          /\ current_trick' = current_trick
          /\ current_trick_type' = current_trick_type
          /\ current_player' = current_player
          /\ last_played_player' = last_played_player
          /\ previous_action' = previous_action
          /\ prev_next_player' = prev_next_player]_vars

\* the current player's Play onto a trick in progress was refused, and so was
\* another player's Pass
C35_Witness ==
    /\ last_call.op = "play_turn"
    /\ ~last_call.ok
    /\ current_trick # << >>
    /\ previous_action = Some("Play")
    /\ \/ last_call.action = "Play" /\ Some(last_call.player) = last_call.was_current
       \/ last_call.action = "Pass" /\ Some(last_call.player) # last_call.was_current


(***************************************************************************)
(* The play-turn event handler (events.rs): it locks the store, hands the  *)
(* cards to Game::play_turn and emits the outcome to the sender.           *)
(***************************************************************************)
MaxEmitted == 3

\* the payloads a client sends with a play-turn event: no cards with a Pass,
\* a selection of cards with a Play
EventCards(c, action) == IF action = "Pass" THEN {<< >>} ELSE SubmittedCards(c)

\* socket.on("play-turn"), up to the match on the result: the guard is
\* taken, the Turn is built with Action::Play and the cards of the payload
\* (struct PlayTurn has no action), and Game::play_turn is called
PlayTurnEvent(c, action, cards) ==
    /\ guard = None
    /\ c \notin DOMAIN pending
    /\ Cardinality(emitted) < MaxEmitted
    /\ PlayTurn(c, "Play", Some(cards))
    /\ guard' = Some(c)
    /\ pending' = pending @@ (c :> [event |-> "play-turn", action |-> action,
                                   cards |-> cards])
    /\ UNCHANGED emitted

\* socket.on("play-turn"), the arms of the match: socket.emit(..).unwrap()
\* while the guard is alive; a failed emit panics, the unwinding drops the
\* guard and leaves the std::sync::Mutex of the store poisoned
PlayTurnEmit(c, sent) ==
    /\ guard = Some(c)
    /\ c \in DOMAIN pending
    /\ emitted' = emitted \cup
          {[event |-> IF last_call.ok THEN "trick-played" ELSE "trick-error",
            to |-> c, locked |-> guard # None, sent |-> sent]}
    /\ guard' = None
    /\ pending' = [d \in (DOMAIN pending) \ {c} |-> pending[d]]
    /\ panicked' = (panicked \/ ~sent)
    /\ UNCHANGED << players, phase, starting, max_time, team_events, dealVars,
                    roundVars, obsVars >>

EventsNext ==
    \/ \E c \in DOMAIN players : \E action \in {"Pass", "Play"} :
          \E cards \in EventCards(c, action) : PlayTurnEvent(c, action, cards)
    \/ \E c \in DOMAIN players : \E sent \in BOOLEAN : PlayTurnEmit(c, sent)

\* the play-turn events of the connections of a round in progress
SpecEvents == RoundInit /\ [][EventsNext]_vars

\* C31: a play-turn event whose action is Pass, sent by the player whose turn
\* it is on an open trick, is applied as a Pass: the call succeeds, no card
\* leaves a hand and the last action becomes Pass.
C31_PlayTurnDispatch ==
    [][\A c \in DOMAIN players :
          (/\ c \notin DOMAIN pending
           /\ c \in DOMAIN pending'
           /\ pending'[c].action = "Pass"
           /\ current_player = Some(c)
           /\ current_trick # << >>)
          => /\ last_call'.ok
             /\ previous_action' = Some("Pass")
             /\ players' = players]_vars

\* C32: no outbound event is emitted while the mutex of the store is held.
C32_NoEmitUnderMutex == \A e \in emitted : ~e.locked

\* C33: after an emit has failed the mutex is released and not poisoned, so
\* later events are still processed.
C33_BestEffortBroadcast ==
    (\E e \in emitted : ~e.sent) => (guard = None /\ ~panicked)

(***************************************************************************)
(* The lobby handlers on several connections at once: every step is one    *)
(* critical section of a handler, and a handler that locks the store more  *)
(* than once keeps its locals in `pending` between its critical sections.  *)
(***************************************************************************)
\* create-lobby, join-team and player-swap-team events started per behaviour
MaxLobbyEvents == 2

\* the store holds the game (there is one game id, GAME_ID)
GameExists == players # << >>

Without(f, c) == [d \in (DOMAIN f) \ {c} |-> f[d]]

Emit(event, c) == [event |-> event, to |-> c, locked |-> FALSE, sent |-> TRUE]

\* create_lobby, first lock: contains_key(&game_id); the guard is a temporary
\* of the condition and is dropped before the branch is taken
CreateCheck(c) ==
    /\ ~panicked
    /\ c \notin DOMAIN pending
    /\ team_events < MaxLobbyEvents
    /\ team_events' = team_events + 1
    /\ IF GameExists
       THEN /\ emitted' = emitted \cup {Emit("join-lobby", c)}
            /\ UNCHANGED pending
       ELSE /\ pending' = pending @@ (c :> [event |-> "create-lobby"])
            /\ UNCHANGED emitted
    /\ last_call' = [op |-> "create_lobby", exists |-> GameExists]
    /\ UNCHANGED << players, phase, starting, max_time, guard, panicked, dealVars,
                    roundVars, passes >>

\* create_lobby, second lock: insert(game_id, Game { players: player_map,
\* ..Default::default() }) replaces whatever the store holds under the id
CreateInsert(c) ==
    /\ ~panicked
    /\ c \in DOMAIN pending
    /\ pending[c].event = "create-lobby"
    /\ players' = (c :> NewPlayer)
    /\ phase' = None
    /\ pending' = Without(pending, c)
    /\ emitted' = emitted \cup {Emit("lobby-created", c)}
    /\ last_call' = [op |-> "create_lobby", exists |-> FALSE]
    /\ UNCHANGED << starting, max_time, guard, team_events, panicked, dealVars,
                    roundVars, passes >>

\* player-swap-team, first critical section: the teams of the two players
\* are read into locals and the guard is dropped
SwapRead(c, s1, s2) ==
    /\ ~panicked
    /\ c \notin DOMAIN pending
    /\ GameExists
    /\ team_events < MaxLobbyEvents
    /\ team_events' = team_events + 1
    /\ IF s1 \in DOMAIN players /\ s2 \in DOMAIN players
       THEN /\ pending' = pending @@
                  (c :> [event |-> "player-swap-team", player1 |-> s1, player2 |-> s2,
                         team_player1 |-> players[s1].team,
                         team_player2 |-> players[s2].team])
            /\ UNCHANGED panicked
       ELSE /\ panicked' = TRUE
            /\ UNCHANGED pending
    /\ last_call' = [op |-> "player_swap_team"]
    /\ UNCHANGED << players, phase, starting, max_time, guard, emitted, dealVars,
                    roundVars, passes >>

\* player-swap-team, second critical section: the teams read earlier are
\* written crosswise and users-in-lobby is emitted
SwapWrite(c) ==
    /\ ~panicked
    /\ c \in DOMAIN pending
    /\ pending[c].event = "player-swap-team"
    /\ LET l == pending[c]
       IN IF l.player1 \in DOMAIN players /\ l.player2 \in DOMAIN players
          THEN /\ players' = [q \in DOMAIN players |->
                     IF q = l.player2 THEN [players[q] EXCEPT !.team = l.team_player1]
                     ELSE IF q = l.player1 THEN [players[q] EXCEPT !.team = l.team_player2]
                     ELSE players[q]]
               /\ emitted' = emitted \cup
                     {[Emit("users-in-lobby", c) EXCEPT !.locked = TRUE]}
               /\ UNCHANGED panicked
          ELSE /\ panicked' = TRUE
               /\ UNCHANGED << players, emitted >>
    /\ pending' = Without(pending, c)
    /\ last_call' = [op |-> "player_swap_team"]
    /\ UNCHANGED << phase, starting, max_time, guard, team_events, dealVars,
                    roundVars, passes >>

\* no game yet, or the lobby of four players with two on each team
ConcurrentInit ==
    /\ players \in {<< >>, FourPlayers({"p1", "p2"})}
    /\ NoRound
    /\ NoDeal

ConcurrentNext ==
    \/ \E c \in Sids : CreateCheck(c)
    \/ \E c \in Sids : CreateInsert(c)
    \/ \E s \in Sids : GameExists /\ ConnectLobby(s)
    \/ \E s \in Sids : \E team \in {"One", "Two", "Spectator"} :
          /\ team_events < MaxLobbyEvents
          /\ team_events' = team_events + 1
          /\ JoinTeam(s, team)
    \/ \E c, s1, s2 \in Sids : SwapRead(c, s1, s2)
    \/ \E c \in Sids : SwapWrite(c)

\* the lobby events of several connections, interleaved at their critical
\* sections
SpecConcurrent == ConcurrentInit /\ [][ConcurrentNext]_vars

\* C36: under every interleaving of join-team, player-swap-team and
\* connect-lobby events, team One and team Two each have at most two members.
C36_TeamSizeConcurrent ==
    \A team \in {"One", "Two"} :
        Cardinality({q \in DOMAIN players : players[q].team = Some(team)}) < 3

\* C37: events are atomic, so no acknowledged lobby is lost: the connection
\* that was answered lobby-created is a player of the game.
C37_EventAtomicity ==
    \A e \in emitted : e.event = "lobby-created" => e.to \in DOMAIN players

=============================================================================
